---- MODULE Spec2Model ----
(***************************************************************************)
(* Token-tree assembly of the dendro compiler front end:                   *)
(*   compiler/ast/src/token.rs               Token, TokenKind, Token::glue  *)
(*   compiler/parse/src/lexer/token_tree.rs  TokenTrees, TokenStreamBuilder *)
(*                                                                         *)
(* Option<T> is a sequence of length at most one: <<>> is None and <<x>>   *)
(* is Some(x).  A TokenKind is a record [tag, arg, raw]: tag is the enum   *)
(* variant, arg its payload (operator, delimiter, symbol, literal kind)    *)
(* and raw the is_raw flag of Ident.                                       *)
(***************************************************************************)
EXTENDS Naturals, Sequences, FiniteSets, TLC

VARIABLES
    status,   \* where the run of parse() stands
    stack,    \* active frames: parse() at the bottom, one per open group above
    current,  \* TokenTrees.current : Option<Token>
    hint,     \* Spacing returned by the latest Tokens::next_token call
    raw,      \* tokens the raw-token source has delivered so far, in order
    pulls,    \* number of Tokens::next_token calls made so far
    eof,      \* the raw-token source has returned None
    last,     \* the latest leaf handled by next_token_tree, with both hints
    err,      \* Option of the error being returned through the frames
    result,   \* Option of what parse() returned
    vec,      \* TokenStreamBuilder.vec of the stand-alone builder
    pushed,   \* pairs handed to the stand-alone builder, in order
    ga,       \* Token::glue: self
    gb,       \* Token::glue: joint
    gr        \* Token::glue: the value returned

vars == <<status, stack, current, hint, raw, pulls, eof, last, err, result,
          vec, pushed, ga, gb, gr>>

parseVars == <<status, stack, current, hint, raw, pulls, eof, last, err, result>>

pushVars == <<vec, pushed>>

glueVars == <<ga, gb, gr>>

-----------------------------------------------------------------------------
(* Bounds *)

MaxLen == 5

MaxPush == 3

-----------------------------------------------------------------------------
(* token.rs: the token model *)

None == <<>>

Some(x) == <<x>>

Spacing == {"Joint", "Alone"}

Delimiter == {"Parenthesis", "Brace", "Bracket"}

BinOpToken == {"Plus", "Minus", "Star", "Slash", "BackSlash", "Percent",
               "Caret", "And", "Or", "Shl", "Shr"}

Kind(tag, arg, raw_) == [tag |-> tag, arg |-> arg, raw |-> raw_]

Simple(tag) == Kind(tag, "", FALSE)

BinOp(op) == Kind("BinOp", op, FALSE)

BinOpEq(op) == Kind("BinOpEq", op, FALSE)

OpenDelim(d) == Kind("OpenDelim", d, FALSE)

CloseDelim(d) == Kind("CloseDelim", d, FALSE)

Ident(name, is_raw) == Kind("Ident", name, is_raw)

Lifetime(name) == Kind("Lifetime", name, FALSE)

Literal(litkind) == Kind("Literal", litkind, FALSE)

DocComment(ckind) == Kind("DocComment", ckind, FALSE)

SimpleTags == {"Eq", "Lt", "Le", "EqEq", "Ne", "Ge", "Gt", "AndAnd", "OrOr",
               "Not", "Tilde", "At", "Dot", "DotDot", "DotDotDot", "DotDotEq",
               "Comma", "Semi", "Colon", "ColonColon", "RArrow", "LArrow",
               "FatArrow", "Pound", "Dollar", "Question", "SingleQuote"}

Symbols == {"a", "b"}

TokenKind ==
    {Simple(t) : t \in SimpleTags}
    \cup {BinOp(op) : op \in BinOpToken}
    \cup {BinOpEq(op) : op \in BinOpToken}
    \cup {OpenDelim(d) : d \in Delimiter}
    \cup {CloseDelim(d) : d \in Delimiter}
    \cup {Literal(k) : k \in {"Integer", "Str"}}
    \cup {Ident(s, r) : s \in Symbols, r \in BOOLEAN}
    \cup {Lifetime("'" \o s) : s \in Symbols}
    \cup {DocComment(c) : c \in {"Line", "Block"}}

MkSpan(lo, hi) == [lo |-> lo, hi |-> hi]

Token(kind, span) == [kind |-> kind, span |-> span]

(* dendro_span::Span::to: the span covering both *)
SpanTo(a, b) ==
    MkSpan(IF a.lo <= b.lo THEN a.lo ELSE b.lo, IF a.hi >= b.hi THEN a.hi ELSE b.hi)

(* Symbol::new_owned(format!("'{name}")) *)
LifetimeSymbol(name) == "'" \o name

(* Mutant of GlueBinOp: the guards `if op == ..` are missing *)
GlueBinOpUnguarded(op, b) ==
    CASE b = Simple("Eq") -> Some(BinOpEq(op))
      [] b = BinOp("And") -> Some(Simple("AndAnd"))
      [] b = BinOp("Or") -> Some(Simple("OrOr"))
      [] b = Simple("Gt") -> Some(Simple("RArrow"))
      [] OTHER -> None

(* The arm `BinOp(op) => match joint.kind` of Token::glue *)
GlueBinOp(op, b) ==
    CASE b = Simple("Eq") -> Some(BinOpEq(op))
      [] b = BinOp("And") /\ op = "And" -> Some(Simple("AndAnd"))
      [] b = BinOp("Or") /\ op = "Or" -> Some(Simple("OrOr"))
      [] b = Simple("Gt") /\ op = "Minus" -> Some(Simple("RArrow"))
      [] OTHER -> None

(* The match of Token::glue on (self.kind, joint.kind): Option<TokenKind> *)
GlueKind(a, b) ==
    CASE a = Simple("Eq") ->
           (CASE b = Simple("Eq") -> Some(Simple("EqEq"))
              [] b = Simple("Gt") -> Some(Simple("FatArrow"))
              [] OTHER -> None)
      [] a = Simple("Lt") ->
           (CASE b = Simple("Eq") -> Some(Simple("Le"))
              [] b = Simple("Lt") -> Some(BinOp("Shl"))
              [] b = Simple("Le") -> Some(BinOpEq("Shl"))
              [] b = BinOp("Minus") -> Some(Simple("LArrow"))
              [] OTHER -> None)
      [] a = Simple("Gt") ->
           (CASE b = Simple("Eq") -> Some(Simple("Ge"))
              [] b = Simple("Gt") -> Some(BinOp("Shr"))
              [] b = Simple("Ge") -> Some(BinOpEq("Shr"))
              [] OTHER -> None)
      [] a = Simple("Not") ->
           (CASE b = Simple("Eq") -> Some(Simple("Ne"))
              [] OTHER -> None)
      [] a.tag = "BinOp" -> GlueBinOp(a.arg, b)
      [] a = Simple("Dot") ->
           (CASE b = Simple("Dot") -> Some(Simple("DotDot"))
              [] b = Simple("DotDot") -> Some(Simple("DotDotDot"))
              [] OTHER -> None)
      [] a = Simple("DotDot") ->
           (CASE b = Simple("Dot") -> Some(Simple("DotDotDot"))
              [] b = Simple("Eq") -> Some(Simple("DotDotEq"))
              [] OTHER -> None)
      [] a = Simple("Colon") ->
           (CASE b = Simple("Colon") -> Some(Simple("ColonColon"))
              [] OTHER -> None)
      [] a = Simple("SingleQuote") ->
           (CASE b.tag = "Ident" /\ b.raw = FALSE -> Some(Lifetime(LifetimeSymbol(b.arg)))
              [] OTHER -> None)
      [] OTHER -> None

(* Mutant of Glue: the glued token takes the span of `joint` alone *)
GlueJointSpan(self, joint) ==
    LET kind == GlueKind(self.kind, joint.kind)
    IN  IF kind = None THEN None
        ELSE Some(Token(kind[1], joint.span))

(* Token::glue *)
Glue(self, joint) ==
    LET kind == GlueKind(self.kind, joint.kind)
    IN  IF kind = None THEN None
        ELSE Some(Token(kind[1], SpanTo(self.span, joint.span)))

-----------------------------------------------------------------------------
(* token_tree.rs: trees and the builder *)

TreeToken(tok) == [t |-> "Token", tok |-> tok]

Delimited(open, close, delim, inner) ==
    [t |-> "Delimited", open |-> open, close |-> close, delim |-> delim, inner |-> inner]

Pair(tree, sp) == [tree |-> tree, sp |-> sp]

(* Mutant of Push: a glued token keeps the Spacing of the pair removed *)
PushKeepsRemovedHint(v, tree, joint) ==
    LET n == Len(v)
        glued == IF n > 0 /\ v[n].tree.t = "Token" /\ v[n].sp = "Joint" /\ tree.t = "Token"
                 THEN Glue(v[n].tree.tok, tree.tok)
                 ELSE None
    IN  IF glued # None
        THEN Append(SubSeq(v, 1, n - 1), Pair(TreeToken(glued[1]), v[n].sp))
        ELSE Append(v, Pair(tree, joint))

(* Mutant of Push: a glued token is tagged Alone *)
PushGluedAlone(v, tree, joint) ==
    LET n == Len(v)
        glued == IF n > 0 /\ v[n].tree.t = "Token" /\ v[n].sp = "Joint" /\ tree.t = "Token"
                 THEN Glue(v[n].tree.tok, tree.tok)
                 ELSE None
    IN  IF glued # None
        THEN Append(SubSeq(v, 1, n - 1), Pair(TreeToken(glued[1]), "Alone"))
        ELSE Append(v, Pair(tree, joint))

(* Mutant of Push: the Spacing of the last pair is not looked at *)
PushAnySpacing(v, tree, joint) ==
    LET n == Len(v)
        glued == IF n > 0 /\ v[n].tree.t = "Token" /\ tree.t = "Token"
                 THEN Glue(v[n].tree.tok, tree.tok)
                 ELSE None
    IN  IF glued # None
        THEN Append(SubSeq(v, 1, n - 1), Pair(TreeToken(glued[1]), joint))
        ELSE Append(v, Pair(tree, joint))

(* Mutant of Push: glues only when the incoming hint is Joint as well *)
PushChecksIncoming(v, tree, joint) ==
    LET n == Len(v)
        glued == IF /\ n > 0 /\ v[n].tree.t = "Token" /\ v[n].sp = "Joint"
                    /\ tree.t = "Token" /\ joint = "Joint"
                 THEN Glue(v[n].tree.tok, tree.tok)
                 ELSE None
    IN  IF glued # None
        THEN Append(SubSeq(v, 1, n - 1), Pair(TreeToken(glued[1]), joint))
        ELSE Append(v, Pair(tree, joint))

(* Mutant of Push: when nothing is glued the pair before is retagged Alone *)
PushRetagsLast(v, tree, joint) ==
    LET n == Len(v)
        glued == IF n > 0 /\ v[n].tree.t = "Token" /\ v[n].sp = "Joint" /\ tree.t = "Token"
                 THEN Glue(v[n].tree.tok, tree.tok)
                 ELSE None
    IN  IF glued # None
        THEN Append(SubSeq(v, 1, n - 1), Pair(TreeToken(glued[1]), joint))
        ELSE IF n > 0
             THEN Append([v EXCEPT ![n].sp = "Alone"], Pair(tree, joint))
             ELSE Append(v, Pair(tree, joint))

(* TokenStreamBuilder::push on the builder contents v *)
Push(v, tree, joint) ==
    LET n == Len(v)
        glued == IF n > 0 /\ v[n].tree.t = "Token" /\ v[n].sp = "Joint" /\ tree.t = "Token"
                 THEN Glue(v[n].tree.tok, tree.tok)
                 ELSE None
    IN  IF glued # None
        THEN Append(SubSeq(v, 1, n - 1), Pair(TreeToken(glued[1]), joint))
        ELSE Append(v, Pair(tree, joint))

(* TokenStreamBuilder::build *)
Build(v) == v

-----------------------------------------------------------------------------
(* The raw-token source, Tokens::next_token: it hands out one token per   *)
(* call, each one byte wide and next to the one before, and None for ever  *)
(* once it has returned None.                                              *)

SrcLeaves == {Simple("Dot"), Simple("Eq")}

SrcDelims == Delimiter

SrcKinds ==
    SrcLeaves \cup {OpenDelim(d) : d \in SrcDelims} \cup {CloseDelim(d) : d \in SrcDelims}

(* What one call of Tokens::next_token may return: (Spacing, Option<Token>) *)
NextToken ==
    {<<h, None>> : h \in Spacing}
    \cup (IF ~eof /\ Len(raw) < MaxLen
          THEN {<<h, Some(Token(k, MkSpan(Len(raw), Len(raw) + 1)))>> :
                    h \in Spacing, k \in SrcKinds}
          ELSE {})

-----------------------------------------------------------------------------
(* token_tree.rs: TokenTrees *)

Frame(fn, delim, open, phase, v) ==
    [fn |-> fn, delim |-> delim, open |-> open, phase |-> phase, vec |-> v]

NoSpan == MkSpan(0, 0)

Top == stack[Len(stack)]

Below == SubSeq(stack, 1, Len(stack) - 1)

IsOpen(tok) == tok.kind.tag = "OpenDelim"

IsClose(tok) == tok.kind.tag = "CloseDelim"

(* Mutant of SameDelim: any close delimiter closes the group *)
SameDelimAny(d, delim) == TRUE

(* The guard `if d == delim` on the close delimiter found *)
SameDelim(d, delim) == d = delim

(* matches!(self.current, None | Some(Token { kind: CloseDelim(_), .. })) *)
IsEofOrClose == IF current = None THEN TRUE ELSE IsClose(current[1])

(* The frame f after vec.push((tree, sp)) *)
FramePush(f, tree, sp) == [f EXCEPT !.vec = Push(f.vec, tree, sp)]

(* Mutant of PushTop: every frame pushes into the builder of parse *)
PushBottom(st, tree, sp) == [st EXCEPT ![1] = FramePush(st[1], tree, sp)]

(* The stack st after its top frame ran vec.push((tree, sp)) *)
PushTop(st, tree, sp) == [st EXCEPT ![Len(st)] = FramePush(st[Len(st)], tree, sp)]

(* TokenTrees::bump, the source answering a = (spacing, next) *)
Bump(a) ==
    /\ current' = a[2]
    /\ hint' = a[1]
    /\ pulls' = pulls + 1
    /\ raw' = IF a[2] = None THEN raw ELSE Append(raw, a[2][1])
    /\ eof' = (eof \/ a[2] = None)

(* The loop of the top frame is about to call next_token_tree: parse     *)
(* loops while current is Some, token_trees_until_close_delim until       *)
(* current is None or a close delimiter                                   *)
LoopCalls ==
    /\ status = "run"
    /\ Top.phase = "loop"
    /\ current # None
    /\ IF Top.fn = "group" THEN ~IsEofOrClose ELSE TRUE

(* TokenTrees::parse up to its loop *)
ParseBegin ==
    /\ status = "new"
    /\ stack' = <<Frame("parse", "", NoSpan, "loop", <<>>)>>
    /\ \E a \in NextToken : Bump(a)
    /\ status' = "run"
    /\ UNCHANGED <<last, err, result, pushVars, glueVars>>

(* Mutant of LeafTree: the Spacing is the one that came with the token *)
LeafTreeOwnHint ==
    /\ LoopCalls
    /\ ~IsOpen(current[1]) /\ ~IsClose(current[1])
    /\ \E a \in NextToken :
          /\ Bump(a)
          /\ stack' = PushTop(stack, TreeToken(current[1]), hint)
          /\ last' = Some([tok |-> current[1], own |-> hint, paired |-> hint])
    /\ UNCHANGED <<status, err, result, pushVars, glueVars>>

(* next_token_tree on a leaf token, and the caller's vec.push of its value *)
LeafTree ==
    /\ LoopCalls
    /\ ~IsOpen(current[1]) /\ ~IsClose(current[1])
    /\ \E a \in NextToken :
          /\ Bump(a)
          /\ stack' = PushTop(stack, TreeToken(current[1]), a[1])
          /\ last' = Some([tok |-> current[1], own |-> hint, paired |-> a[1]])
    /\ UNCHANGED <<status, err, result, pushVars, glueVars>>

(* Mutant of OpenGroup: the group goes on in the builder of the caller *)
OpenGroupSharedBuilder ==
    /\ LoopCalls
    /\ IsOpen(current[1])
    /\ \E a \in NextToken : Bump(a)
    /\ stack' = Append(stack, Frame("group", current[1].kind.arg, current[1].span,
                                    "loop", Top.vec))
    /\ UNCHANGED <<status, last, err, result, pushVars, glueVars>>

(* next_token_tree on an open delimiter, up to the loop of               *)
(* token_trees_until_close_delim                                          *)
OpenGroup ==
    /\ LoopCalls
    /\ IsOpen(current[1])
    /\ \E a \in NextToken : Bump(a)
    /\ stack' = Append(stack, Frame("group", current[1].kind.arg, current[1].span, "loop", <<>>))
    /\ UNCHANGED <<status, last, err, result, pushVars, glueVars>>

(* Mutant of UntilReturn: the loop is left whatever the current token is *)
UntilReturnEarly ==
    /\ status = "run"
    /\ Top.fn = "group"
    /\ Top.phase = "loop"
    /\ stack' = [stack EXCEPT ![Len(stack)].phase = "closing",
                              ![Len(stack)].vec = Build(Top.vec)]
    /\ UNCHANGED <<status, current, hint, raw, pulls, eof, last, err, result,
                   pushVars, glueVars>>

(* token_trees_until_close_delim leaves its loop and returns the Stream *)
UntilReturn ==
    /\ status = "run"
    /\ Top.fn = "group" /\ Top.phase = "loop"
    /\ IsEofOrClose
    /\ stack' = [stack EXCEPT ![Len(stack)].phase = "closing",
                              ![Len(stack)].vec = Build(Top.vec)]
    /\ UNCHANGED <<status, current, hint, raw, pulls, eof, last, err, result,
                   pushVars, glueVars>>

(* Spacing that `delimited.into()` pairs with the Delimited *)
IntoSpacing == Spacing

(* Mutant of CloseGroup: the matching close delimiter is not consumed *)
CloseGroupNoBump ==
    /\ status = "run"
    /\ Top.fn = "group" /\ Top.phase = "closing"
    /\ current # None
    /\ IsClose(current[1])
    /\ SameDelim(current[1].kind.arg, Top.delim)
    /\ \E sp \in IntoSpacing :
          stack' = PushTop(Below,
                      Delimited(Top.open, current[1].span, Top.delim, Top.vec), sp)
    /\ UNCHANGED <<status, current, hint, raw, pulls, eof, last, err, result,
                   pushVars, glueVars>>

(* next_token_tree after the inner Stream: the close delimiter matches;  *)
(* the caller pushes the value returned                                   *)
CloseGroup ==
    /\ status = "run"
    /\ Top.fn = "group" /\ Top.phase = "closing"
    /\ current # None
    /\ IsClose(current[1])
    /\ SameDelim(current[1].kind.arg, Top.delim)
    /\ \E a \in NextToken, sp \in IntoSpacing :
          /\ Bump(a)
          /\ stack' = PushTop(Below,
                         Delimited(Top.open, current[1].span, Top.delim, Top.vec), sp)
    /\ UNCHANGED <<status, last, err, result, pushVars, glueVars>>

(* Mutant of Unclosed: the error names the outermost open delimiter *)
UnclosedOutermost ==
    /\ status = "run"
    /\ Top.fn = "group" /\ Top.phase = "closing"
    /\ current = None
    /\ err' = Some([delim |-> stack[2].delim, open |-> stack[2].open, found |-> None])
    /\ stack' = Below
    /\ status' = "unwind"
    /\ UNCHANGED <<current, hint, raw, pulls, eof, last, result, pushVars, glueVars>>

(* Mutant of Unclosed: the source is pulled once more at end of input *)
UnclosedBumps ==
    /\ status = "run"
    /\ Top.fn = "group" /\ Top.phase = "closing"
    /\ current = None
    /\ \E a \in NextToken : Bump(a)
    /\ err' = Some([delim |-> Top.delim, open |-> Top.open, found |-> None])
    /\ stack' = Below
    /\ status' = "unwind"
    /\ UNCHANGED <<last, result, pushVars, glueVars>>

(* next_token_tree after the inner Stream: input exhausted *)
Unclosed ==
    /\ status = "run"
    /\ Top.fn = "group" /\ Top.phase = "closing"
    /\ current = None
    /\ err' = Some([delim |-> Top.delim, open |-> Top.open, found |-> None])
    /\ stack' = Below
    /\ status' = "unwind"
    /\ UNCHANGED <<current, hint, raw, pulls, eof, last, result, pushVars, glueVars>>

(* Mutant of Mismatched: the error gives the open span for the close found *)
MismatchedOpenSpan ==
    /\ status = "run"
    /\ Top.fn = "group" /\ Top.phase = "closing"
    /\ current # None
    /\ IsClose(current[1])
    /\ ~SameDelim(current[1].kind.arg, Top.delim)
    /\ err' = Some([delim |-> Top.delim, open |-> Top.open,
                    found |-> Some([delim |-> current[1].kind.arg,
                                    close |-> Top.open])])
    /\ stack' = Below
    /\ status' = "unwind"
    /\ UNCHANGED <<current, hint, raw, pulls, eof, last, result, pushVars, glueVars>>

(* next_token_tree after the inner Stream: a close delimiter of another kind *)
Mismatched ==
    /\ status = "run"
    /\ Top.fn = "group" /\ Top.phase = "closing"
    /\ current # None
    /\ IsClose(current[1])
    /\ ~SameDelim(current[1].kind.arg, Top.delim)
    /\ err' = Some([delim |-> Top.delim, open |-> Top.open,
                    found |-> Some([delim |-> current[1].kind.arg,
                                    close |-> current[1].span])])
    /\ stack' = Below
    /\ status' = "unwind"
    /\ UNCHANGED <<current, hint, raw, pulls, eof, last, result, pushVars, glueVars>>

(* Mutant of Propagate: the enclosing frame swallows the error and goes on *)
PropagateRecovers ==
    /\ status = "unwind"
    /\ stack' = Below
    /\ IF Len(stack) = 1
       THEN /\ status' = "done"
            /\ result' = Some([ok |-> FALSE, val |-> err[1]])
       ELSE /\ status' = "run"
            /\ UNCHANGED result
    /\ UNCHANGED <<current, hint, raw, pulls, eof, last, err, pushVars, glueVars>>

(* The `?` on next_token_tree: the calling frame returns the error; the  *)
(* last one is parse                                                      *)
Propagate ==
    /\ status = "unwind"
    /\ stack' = Below
    /\ IF Len(stack) = 1
       THEN status' = "done" /\ result' = Some([ok |-> FALSE, val |-> err[1]])
       ELSE UNCHANGED <<status, result>>
    /\ UNCHANGED <<current, hint, raw, pulls, eof, last, err, pushVars, glueVars>>

(* parse calls next_token_tree on a close delimiter: unreachable!() panics *)
PanicOnClose ==
    /\ LoopCalls
    /\ IsClose(current[1])
    /\ status' = "panic"
    /\ UNCHANGED <<stack, current, hint, raw, pulls, eof, last, err, result,
                   pushVars, glueVars>>

(* parse leaves its loop and returns Ok(vec.build()) *)
ParseReturn ==
    /\ status = "run"
    /\ Top.fn = "parse"
    /\ current = None
    /\ result' = Some([ok |-> TRUE, val |-> Build(Top.vec)])
    /\ stack' = <<>>
    /\ status' = "done"
    /\ UNCHANGED <<current, hint, raw, pulls, eof, last, err, pushVars, glueVars>>

Init ==
    /\ status = "new"
    /\ stack = <<>>
    /\ current = None
    /\ hint = "Alone"
    /\ raw = <<>>
    /\ pulls = 0
    /\ eof = FALSE
    /\ last = None
    /\ err = None
    /\ result = None
    /\ vec = <<>>
    /\ pushed = <<>>
    /\ ga = None /\ gb = None /\ gr = None

Next ==
    \/ ParseBegin
    \/ LeafTree
    \/ OpenGroup
    \/ UntilReturn
    \/ CloseGroup
    \/ Unclosed
    \/ Mismatched
    \/ Propagate
    \/ PanicOnClose
    \/ ParseReturn

Spec == Init /\ [][Next]_vars

-----------------------------------------------------------------------------
(* The builder on its own: any sequence of push calls.  The elements     *)
(* pushed lie next to each other in the text, a leaf one byte wide and a  *)
(* group two.                                                             *)

PushKinds ==
    {Simple("Dot"), Simple("DotDot"), Simple("Lt"), Simple("Le"), Simple("Eq"),
     Simple("Gt"), BinOp("Minus"), BinOp("And"), Simple("SingleQuote"),
     Ident("a", FALSE), Ident("a", TRUE), Literal("Integer")}

(* End of the text covered by the pairs in v *)
EndOf(v) ==
    IF v = <<>> THEN 0
    ELSE LET e == v[Len(v)].tree
         IN  IF e.t = "Token" THEN e.tok.span.hi ELSE e.close.hi

PushTrees ==
    LET lo == EndOf(pushed)
    IN  {TreeToken(Token(k, MkSpan(lo, lo + 1))) : k \in PushKinds}
        \cup {Delimited(MkSpan(lo, lo + 1), MkSpan(lo + 1, lo + 2), d, <<>>) : d \in {"Parenthesis"}}

(* vec.push((tree, sp)) on the stand-alone builder *)
BuilderPush ==
    /\ Len(pushed) < MaxPush
    /\ \E tree \in PushTrees, sp \in Spacing :
          /\ vec' = Push(vec, tree, sp)
          /\ pushed' = Append(pushed, Pair(tree, sp))
    /\ UNCHANGED <<parseVars, glueVars>>

NextPush == BuilderPush

SpecPush == Init /\ [][NextPush]_vars

-----------------------------------------------------------------------------
(* Token::glue on its own: any two tokens, the second after the first *)

GlueSpans ==
    {<<MkSpan(0, wa), MkSpan(wa + gap, wa + gap + wb)>> :
        wa \in 1..2, gap \in 0..1, wb \in 1..2}

(* self.glue(joint) *)
GlueCall ==
    /\ ga = None
    /\ \E a \in TokenKind, b \in TokenKind, sp \in GlueSpans :
          /\ ga' = Some(Token(a, sp[1]))
          /\ gb' = Some(Token(b, sp[2]))
          /\ gr' = Glue(Token(a, sp[1]), Token(b, sp[2]))
    /\ UNCHANGED <<parseVars, pushVars>>

NextGlue == GlueCall

SpecGlue == Init /\ [][NextGlue]_vars

-----------------------------------------------------------------------------
(* Reading the raw tokens delivered so far as brackets, without the      *)
(* assembler: raw[i] covers the text [i-1, i).                            *)

RECURSIVE OpenStackAt(_)
(* Indices of the open delimiters not yet closed after the first n raw   *)
(* tokens, innermost last, every close delimiter closing the innermost    *)
OpenStackAt(n) ==
    IF n = 0 THEN <<>>
    ELSE LET s == OpenStackAt(n - 1)
         IN  IF IsOpen(raw[n]) THEN Append(s, n)
             ELSE IF IsClose(raw[n]) /\ s # <<>> THEN SubSeq(s, 1, Len(s) - 1)
             ELSE s

(* The close delimiter at j closes the open delimiter at i *)
Closes(i, j) ==
    /\ i < j
    /\ IsOpen(raw[i]) /\ IsClose(raw[j])
    /\ OpenStackAt(j - 1) # <<>>
    /\ OpenStackAt(j - 1)[Len(OpenStackAt(j - 1))] = i

(* Every close delimiter closes an open one of its kind, and none is left open *)
WellNested ==
    /\ OpenStackAt(Len(raw)) = <<>>
    /\ \A j \in 1..Len(raw) :
          IsClose(raw[j]) =>
             \E i \in 1..(j - 1) : Closes(i, j) /\ raw[i].kind.arg = raw[j].kind.arg

Succeeded == IF result = None THEN FALSE ELSE result[1].ok

Failed == IF result = None THEN FALSE ELSE ~result[1].ok

RECURSIVE AllDelimited(_)
(* The Delimited elements of a Stream, at any depth *)
AllDelimited(stream) ==
    UNION {IF stream[i].tree.t = "Delimited"
           THEN {stream[i].tree} \cup AllDelimited(stream[i].tree.inner)
           ELSE {} : i \in DOMAIN stream}

-----------------------------------------------------------------------------
(* C1: in a Stream returned by parse, every Delimited element, at any    *)
(* depth, carries the spans of an open and a close delimiter that were    *)
(* both pulled from the source, the open first, both of the element's     *)
(* Delimiter kind, and the close is the one that closes that open.        *)
C1_DelimitedFromPulledPair ==
    Succeeded =>
        \A d \in AllDelimited(result[1].val) :
            \E i \in 1..Len(raw), j \in 1..Len(raw) :
                /\ i < j
                /\ raw[i] = Token(OpenDelim(d.delim), d.open)
                /\ raw[j] = Token(CloseDelim(d.delim), d.close)
                /\ Closes(i, j)

(* A Stream was returned that holds a group inside a group *)
C1_Witness ==
    /\ Succeeded
    /\ \E d \in AllDelimited(result[1].val) :
          \E e \in AllDelimited(d.inner) : e.delim # d.delim

-----------------------------------------------------------------------------
(* C2: when the source has reached end of input while an open delimiter  *)
(* is still unclosed, parse does not panic and returns no Stream: the     *)
(* error it raises and returns names the kind and the open span of the    *)
(* innermost unclosed open delimiter, and end of input as what was found. *)
UnclosedAtEof == eof /\ OpenStackAt(Len(raw)) # <<>>

InnermostOpen == raw[OpenStackAt(Len(raw))[Len(OpenStackAt(Len(raw)))]]

UnclosedError ==
    [delim |-> InnermostOpen.kind.arg, open |-> InnermostOpen.span, found |-> None]

C2_UnclosedAtEndOfInput ==
    UnclosedAtEof =>
        /\ status \in {"run", "unwind", "done"}
        /\ status = "run" => err = None /\ Top.fn = "group"
        /\ status = "unwind" => err = Some(UnclosedError)
        /\ status = "done" => result = Some([ok |-> FALSE, val |-> UnclosedError])

(* parse returned the error for "( [": Bracket, opened at [1, 2) *)
C2_Witness ==
    /\ status = "done"
    /\ UnclosedAtEof
    /\ Len(OpenStackAt(Len(raw))) = 2
    /\ Failed
    /\ result[1].val = [delim |-> "Bracket", open |-> MkSpan(1, 2), found |-> None]

-----------------------------------------------------------------------------
(* C3: when the latest raw token is a close delimiter of kind D2 and the *)
(* innermost unclosed open delimiter has another kind D, that close is    *)
(* never consumed (it stays in `current`, no Delimited takes its span),   *)
(* parse does not panic and returns no Stream: the error it raises and    *)
(* returns carries D with the open span and D2 with the close span.       *)
MismatchAtLast ==
    /\ raw # <<>>
    /\ IsClose(raw[Len(raw)])
    /\ OpenStackAt(Len(raw) - 1) # <<>>
    /\ raw[OpenStackAt(Len(raw) - 1)[Len(OpenStackAt(Len(raw) - 1))]].kind.arg
          # raw[Len(raw)].kind.arg

MismatchError ==
    LET o == raw[OpenStackAt(Len(raw) - 1)[Len(OpenStackAt(Len(raw) - 1))]]
        c == raw[Len(raw)]
    IN  [delim |-> o.kind.arg, open |-> o.span,
         found |-> Some([delim |-> c.kind.arg, close |-> c.span])]

C3_MismatchedClose ==
    MismatchAtLast =>
        /\ current = Some(raw[Len(raw)])
        /\ ~eof
        /\ status \in {"run", "unwind", "done"}
        /\ status = "run" => err = None /\ Top.fn = "group"
                                /\ Top.delim = MismatchError.delim
        /\ status = "unwind" => err = Some(MismatchError)
        /\ status = "done" => result = Some([ok |-> FALSE, val |-> MismatchError])

(* parse returned the error for "( . ]": Parenthesis opened at 0, Bracket *)
(* found at 2                                                             *)
C3_Witness ==
    /\ status = "done"
    /\ MismatchAtLast
    /\ Failed
    /\ result[1].val = [delim |-> "Parenthesis", open |-> MkSpan(0, 1),
                        found |-> Some([delim |-> "Bracket", close |-> MkSpan(2, 3)])]

-----------------------------------------------------------------------------
(* C4: for a raw-token sequence that is well nested, parse returns a     *)
(* Stream and the Stream mirrors the brackets: every raw token sits in    *)
(* the Stream of the group of its innermost enclosing open delimiter (0:  *)
(* the top level), a leaf of the Stream covers leaf tokens only, a        *)
(* Delimited has the kind of its open delimiter, and the elements of      *)
(* every Stream come in the order of the raw tokens.                      *)

(* Index of the innermost open delimiter around raw[i]; for a delimiter, *)
(* around its group; 0 at top level                                       *)
Enclosing(i) ==
    LET s == IF IsClose(raw[i]) THEN OpenStackAt(i) ELSE OpenStackAt(i - 1)
    IN  IF s = <<>> THEN 0 ELSE s[Len(s)]

RECURSIVE Placement(_, _)
(* The pairs <<raw index, index of the open delimiter of the group>> that *)
(* a Stream states, the Stream being the inner Stream of group `parent`   *)
Placement(stream, parent) ==
    UNION {LET e == stream[k].tree
           IN  IF e.t = "Token"
               THEN {<<i, parent>> : i \in (e.tok.span.lo + 1)..e.tok.span.hi}
               ELSE {<<e.open.hi, parent>>, <<e.close.hi, parent>>}
                    \cup Placement(e.inner, e.open.hi)
           : k \in DOMAIN stream}

StartOf(e) == IF e.t = "Token" THEN e.tok.span.lo ELSE e.open.lo

EndOfTree(e) == IF e.t = "Token" THEN e.tok.span.hi ELSE e.close.hi

RECURSIVE InOrder(_)
InOrder(stream) ==
    /\ \A k \in 1..(Len(stream) - 1) :
          EndOfTree(stream[k].tree) <= StartOf(stream[k + 1].tree)
    /\ \A k \in DOMAIN stream :
          LET e == stream[k].tree
          IN  /\ StartOf(e) < EndOfTree(e)
              /\ e.t = "Delimited" =>
                    /\ InOrder(e.inner)
                    /\ e.open.hi <= e.close.lo
                    /\ e.inner # <<>> =>
                          /\ e.open.hi <= StartOf(e.inner[1].tree)
                          /\ EndOfTree(e.inner[Len(e.inner)].tree) <= e.close.lo

RECURSIVE KindsKept(_)
(* Leaves cover leaf tokens, an unglued leaf is its raw token, and a      *)
(* Delimited has the kind of the open delimiter at its open span          *)
KindsKept(stream) ==
    \A k \in DOMAIN stream :
        LET e == stream[k].tree
        IN  IF e.t = "Token"
            THEN /\ \A i \in (e.tok.span.lo + 1)..e.tok.span.hi :
                        ~IsOpen(raw[i]) /\ ~IsClose(raw[i])
                 /\ e.tok.span.hi = e.tok.span.lo + 1 => e.tok = raw[e.tok.span.hi]
            ELSE /\ raw[e.open.hi].kind = OpenDelim(e.delim)
                 /\ KindsKept(e.inner)

C4_BalancedInputMirrored ==
    (eof /\ WellNested) =>
        /\ status \in {"run", "done"}
        /\ err = None
        /\ status = "done" =>
              /\ Succeeded
              /\ Placement(result[1].val, 0) = {<<i, Enclosing(i)>> : i \in 1..Len(raw)}
              /\ InOrder(result[1].val)
              /\ KindsKept(result[1].val)

(* "( . [ ] )" was assembled: one Parenthesis group holding a leaf and a *)
(* Bracket group, in that order                                           *)
C4_Witness ==
    /\ eof /\ WellNested /\ Succeeded
    /\ Len(result[1].val) = 1
    /\ result[1].val[1].tree.t = "Delimited"
    /\ result[1].val[1].tree.delim = "Parenthesis"
    /\ Len(result[1].val[1].tree.inner) = 2
    /\ result[1].val[1].tree.inner[1].tree.t = "Token"
    /\ result[1].val[1].tree.inner[2].tree.t = "Delimited"
    /\ result[1].val[1].tree.inner[2].tree.delim = "Bracket"

-----------------------------------------------------------------------------
(* C5: the builder never glues across a boundary tagged Alone.  A push   *)
(* made while the last pair is tagged Alone appends the incoming pair     *)
(* as it is; and of the pushed leaves that a token of the builder covers, *)
(* every one but the last was pushed with Joint.                          *)
AloneBoundariesKept ==
    \A i \in DOMAIN vec :
        vec[i].tree.t = "Token" =>
            \A k \in DOMAIN pushed :
                (/\ pushed[k].tree.t = "Token"
                 /\ vec[i].tree.tok.span.lo <= pushed[k].tree.tok.span.lo
                 /\ pushed[k].tree.tok.span.hi < vec[i].tree.tok.span.hi)
                    => pushed[k].sp = "Joint"

C5_NoGlueAcrossAlone ==
    [][/\ (pushed' # pushed /\ vec # <<>> /\ vec[Len(vec)].sp = "Alone")
            => vec' = Append(vec, pushed'[Len(pushed')])
       /\ AloneBoundariesKept']_vars

(* `<` tagged Alone and then `=` were pushed, and stay two tokens *)
C5_Witness ==
    /\ Len(pushed) = 2
    /\ pushed[1] = Pair(TreeToken(Token(Simple("Lt"), MkSpan(0, 1))), "Alone")
    /\ pushed[2].tree = TreeToken(Token(Simple("Eq"), MkSpan(1, 2)))
    /\ Glue(pushed[1].tree.tok, pushed[2].tree.tok) # None
    /\ vec = pushed

-----------------------------------------------------------------------------
(* C6: Token::glue agrees with the gluing table: for a pair of kinds the *)
(* table lists it returns the kind listed, over the covering span, and    *)
(* for every other pair it returns None.                                  *)
GlueTable ==
    {<<Simple("Eq"), Simple("Eq"), Simple("EqEq")>>,
     <<Simple("Eq"), Simple("Gt"), Simple("FatArrow")>>,
     <<Simple("Lt"), Simple("Eq"), Simple("Le")>>,
     <<Simple("Lt"), Simple("Lt"), BinOp("Shl")>>,
     <<Simple("Lt"), Simple("Le"), BinOpEq("Shl")>>,
     <<Simple("Lt"), BinOp("Minus"), Simple("LArrow")>>,
     <<Simple("Gt"), Simple("Eq"), Simple("Ge")>>,
     <<Simple("Gt"), Simple("Gt"), BinOp("Shr")>>,
     <<Simple("Gt"), Simple("Ge"), BinOpEq("Shr")>>,
     <<Simple("Not"), Simple("Eq"), Simple("Ne")>>,
     <<BinOp("And"), BinOp("And"), Simple("AndAnd")>>,
     <<BinOp("Or"), BinOp("Or"), Simple("OrOr")>>,
     <<BinOp("Minus"), Simple("Gt"), Simple("RArrow")>>,
     <<Simple("Dot"), Simple("Dot"), Simple("DotDot")>>,
     <<Simple("Dot"), Simple("DotDot"), Simple("DotDotDot")>>,
     <<Simple("DotDot"), Simple("Dot"), Simple("DotDotDot")>>,
     <<Simple("DotDot"), Simple("Eq"), Simple("DotDotEq")>>,
     <<Simple("Colon"), Simple("Colon"), Simple("ColonColon")>>}
    \cup {<<BinOp(op), Simple("Eq"), BinOpEq(op)>> : op \in BinOpToken}
    \cup {<<Simple("SingleQuote"), Ident(n, FALSE), Lifetime("'" \o n)>> : n \in Symbols}

(* Left operands the claim names as never gluing *)
NeverGlues(k) ==
    \/ k.tag \in {"OpenDelim", "CloseDelim", "Literal", "Ident", "Lifetime",
                  "DocComment", "BinOpEq"}
    \/ k.tag \in {"Le", "EqEq", "Ne", "Ge", "AndAnd", "OrOr", "DotDotDot", "DotDotEq",
                  "ColonColon", "RArrow", "LArrow", "FatArrow"}

C6_GlueAgreesWithTable ==
    ga # None =>
        LET rows == {row \in GlueTable : row[1] = ga[1].kind /\ row[2] = gb[1].kind}
        IN  /\ rows = {} => gr = None
            /\ \A row \in rows :
                  gr = Some(Token(row[3], MkSpan(ga[1].span.lo, gb[1].span.hi)))
            /\ NeverGlues(ga[1].kind) => gr = None
            /\ (ga[1].kind = Simple("SingleQuote") /\ gb[1].kind.raw) => gr = None

(* A single quote and the identifier a, not raw, were glued to the       *)
(* lifetime 'a                                                            *)
C6_Witness ==
    /\ ga # None
    /\ ga[1].kind = Simple("SingleQuote")
    /\ gb[1].kind = Ident("a", FALSE)
    /\ gr # None
    /\ gr[1].kind = Lifetime("'a")

-----------------------------------------------------------------------------
(* C7: gluing leaves no gap, overlap or reordering.  Read in tree order, *)
(* the spans of the leaves and of the open and close delimiters of what   *)
(* has been assembled are consecutive runs of the raw tokens consumed:    *)
(* the first starts where the first raw token starts, each next one       *)
(* starts where the one before ends, and the last ends where the last     *)
(* consumed raw token ends.  This holds of every builder while parse      *)
(* runs, so of every token at the moment it is glued, and of the Stream   *)
(* parse returns, which covers every raw token pulled.                    *)

RECURSIVE SpansOf(_)
(* Spans of the leaves and delimiters of a Stream, in tree order *)
SpansOf(stream) ==
    IF stream = <<>> THEN <<>>
    ELSE LET e == Head(stream).tree
         IN  (IF e.t = "Token" THEN <<e.tok.span>>
              ELSE <<e.open>> \o SpansOf(e.inner) \o <<e.close>>)
             \o SpansOf(Tail(stream))

RECURSIVE AssembledSpans(_)
(* Spans of what the first n frames hold, in tree order *)
AssembledSpans(n) ==
    IF n = 0 THEN <<>>
    ELSE AssembledSpans(n - 1)
         \o (IF stack[n].fn = "group" THEN <<stack[n].open>> ELSE <<>>)
         \o SpansOf(stack[n].vec)

(* The spans sp are consecutive runs of raw[1..n], in order: each is the *)
(* covering span of the raw tokens of its run                             *)
Tiles(sp, n) ==
    /\ sp = <<>> => n = 0
    /\ sp # <<>> =>
          /\ sp[1].lo = raw[1].span.lo
          /\ sp[Len(sp)].hi = raw[n].span.hi
    /\ \A k \in DOMAIN sp :
          /\ sp[k].lo < sp[k].hi
          /\ sp[k] = SpanTo(raw[sp[k].lo + 1].span, raw[sp[k].hi].span)
          /\ k < Len(sp) => sp[k + 1].lo = sp[k].hi

Consumed == IF current = None THEN Len(raw) ELSE Len(raw) - 1

C7_SpansTileRawTokens ==
    /\ status = "run" => Tiles(AssembledSpans(Len(stack)), Consumed)
    /\ Succeeded => Tiles(SpansOf(result[1].val), Len(raw))

(* A Stream was returned with a group that holds a token glued from      *)
(* three raw tokens                                                       *)
C7_Witness ==
    /\ Succeeded
    /\ \E d \in AllDelimited(result[1].val) :
          \E k \in DOMAIN d.inner :
              /\ d.inner[k].tree.t = "Token"
              /\ d.inner[k].tree.tok.span.hi = d.inner[k].tree.tok.span.lo + 3

-----------------------------------------------------------------------------
(* C8: gluing chains through a token that was glued before.  Three Dot   *)
(* tokens at [0,1), [1,2), [2,3), the first two tagged Joint, are one     *)
(* DotDotDot token over [0,3) after the third push (one DotDot over       *)
(* [0,2) after the second), and `<`, `<`, `=` pushed likewise are one     *)
(* BinOpEq(Shl) token over [0,3); the token carries the last hint.        *)
PushedKinds(k1, k2, k3) ==
    /\ Len(pushed) = 3
    /\ pushed[1] = Pair(TreeToken(Token(k1, MkSpan(0, 1))), "Joint")
    /\ pushed[2] = Pair(TreeToken(Token(k2, MkSpan(1, 2))), "Joint")
    /\ pushed[3].tree = TreeToken(Token(k3, MkSpan(2, 3)))

C8_GlueChains ==
    /\ PushedKinds(Simple("Dot"), Simple("Dot"), Simple("Dot")) =>
          vec = <<Pair(TreeToken(Token(Simple("DotDotDot"), MkSpan(0, 3))), pushed[3].sp)>>
    /\ PushedKinds(Simple("Lt"), Simple("Lt"), Simple("Eq")) =>
          vec = <<Pair(TreeToken(Token(BinOpEq("Shl"), MkSpan(0, 3))), pushed[3].sp)>>
    /\ (/\ Len(pushed) = 2
        /\ pushed[1] = Pair(TreeToken(Token(Simple("Dot"), MkSpan(0, 1))), "Joint")
        /\ pushed[2].tree = TreeToken(Token(Simple("Dot"), MkSpan(1, 2)))) =>
          vec = <<Pair(TreeToken(Token(Simple("DotDot"), MkSpan(0, 2))), pushed[2].sp)>>

(* Three Dot tokens, each tagged Joint, were pushed and are one token *)
C8_Witness ==
    /\ PushedKinds(Simple("Dot"), Simple("Dot"), Simple("Dot"))
    /\ pushed[3].sp = "Joint"
    /\ Len(vec) = 1
    /\ vec[1].tree.tok.kind = Simple("DotDotDot")

-----------------------------------------------------------------------------
(* C9 as stated: the hint paired with a leaf token is the hint the       *)
(* source returned in the pull that delivered that token.                 *)
C9_OwnHintPaired ==
    last # None => last[1].paired = last[1].own

(* C9 as amended: the hint paired with a leaf token is the hint the      *)
(* source returns in the pull that advances past that token, the one      *)
(* that delivers the token after it or end of input.  That pull is made   *)
(* by next_token_tree itself, and the pair the caller pushes carries its  *)
(* hint.                                                                  *)
LeafAtHand ==
    /\ status = "run"
    /\ IF current = None THEN FALSE ELSE ~IsOpen(current[1]) /\ ~IsClose(current[1])

C9_HintOfAdvancingPull ==
    [][(LeafAtHand /\ pulls' # pulls) =>
          /\ pulls' = pulls + 1
          /\ last' = Some([tok |-> current[1], own |-> hint, paired |-> hint'])
          /\ Len(stack') = Len(stack)
          /\ LET v == stack'[Len(stack')].vec
             IN  /\ v # <<>>
                 /\ v[Len(v)].sp = hint'
                 /\ v[Len(v)].tree.t = "Token"
                 /\ v[Len(v)].tree.tok.span.hi = current[1].span.hi]_vars

(* A leaf that came with Joint was just pushed with the Alone of the     *)
(* pull that advanced past it                                             *)
C9_Witness ==
    /\ status = "run"
    /\ last # None
    /\ last[1].own = "Joint"
    /\ last[1].paired = "Alone"
    /\ hint = "Alone"
    /\ Top.vec # <<>>
    /\ Top.vec[Len(Top.vec)] = Pair(TreeToken(last[1].tok), "Alone")

-----------------------------------------------------------------------------
(* C10: next_token_tree is never called while `current` is a close       *)
(* delimiter, so its unreachable!() is never run and parse fails with     *)
(* an unclosed or mismatched delimiter error only.                        *)
C10_NeverCalledOnClose ==
    status # "panic"

-----------------------------------------------------------------------------
(* C11: when push glues, the pair it leaves at the end of the builder is *)
(* the glued token with the hint of the incoming element; the hint of     *)
(* the pair removed was Joint and is dropped.  So every glued token of    *)
(* the builder carries the hint of the last leaf pushed into it.          *)
GluedCarriesLastHint ==
    \A i \in DOMAIN vec :
        (/\ vec[i].tree.t = "Token"
         /\ vec[i].tree.tok.span.hi > vec[i].tree.tok.span.lo + 1) =>
            \A k \in DOMAIN pushed :
                (/\ pushed[k].tree.t = "Token"
                 /\ pushed[k].tree.tok.span.hi = vec[i].tree.tok.span.hi)
                    => vec[i].sp = pushed[k].sp

C11_GluedTakesIncomingHint ==
    [][/\ (pushed' # pushed /\ Len(vec') = Len(vec)) =>
            LET n == Len(vec)
                inc == pushed'[Len(pushed')]
            IN  /\ n > 0
                /\ vec[n].sp = "Joint"
                /\ vec[n].tree.t = "Token" /\ inc.tree.t = "Token"
                /\ vec'[n].sp = inc.sp
                /\ vec'[n].tree.t = "Token"
                /\ vec'[n].tree.tok.span.lo = vec[n].tree.tok.span.lo
                /\ vec'[n].tree.tok.span.hi = inc.tree.tok.span.hi
       /\ GluedCarriesLastHint']_vars

(* Dot (Joint), Dot (Alone), Dot were pushed: the DotDot glued from the  *)
(* first two is tagged Alone and the third Dot, which DotDot would glue   *)
(* with, stays apart                                                      *)
C11_Witness ==
    /\ Len(pushed) = 3
    /\ pushed[1].sp = "Joint" /\ pushed[2].sp = "Alone"
    /\ Len(vec) = 2
    /\ vec[1] = Pair(TreeToken(Token(Simple("DotDot"), MkSpan(0, 2))), "Alone")
    /\ vec[2].tree = TreeToken(Token(Simple("Dot"), MkSpan(2, 3)))
    /\ Glue(vec[1].tree.tok, vec[2].tree.tok) # None

-----------------------------------------------------------------------------
(* C12: the first structural error aborts the whole assembly.  The step  *)
(* that detects the error pulls nothing and leaves current as it is (a    *)
(* mismatched close delimiter stays in current); from then on no token is *)
(* pulled, no builder of a pending frame changes, every pending frame     *)
(* returns the same error, and parse() returns that error and no Stream.  *)
ErrorDetected ==
    status = "run" /\ status' = "unwind"

ErrorKept ==
    /\ err' # None
    /\ pulls' = pulls /\ raw' = raw /\ current' = current /\ eof' = eof
    /\ Len(stack') = Len(stack) - 1
    /\ \A i \in DOMAIN stack' : stack'[i] = stack[i]
    /\ (err'[1].found # None =>
            /\ current' # None
            /\ IsClose(current'[1])
            /\ current'[1].span = err'[1].found[1].close
            /\ current'[1] = raw'[Len(raw')])
    /\ (err'[1].found = None => current' = None)

C12_FirstErrorAborts ==
    [][/\ (status # "unwind" /\ status' # "unwind" /\ status' # "new") => err' = None
       /\ ErrorDetected => (err = None /\ ErrorKept)
       /\ status = "unwind" =>
            /\ ErrorKept /\ err' = err
            /\ status' \in {"unwind", "done"}
            /\ (status' = "unwind") = (Len(stack) > 1)
            /\ status' = "done" =>
                    /\ stack' = <<>>
                    /\ result' = Some([ok |-> FALSE, val |-> err[1]])
       /\ result # None => UNCHANGED <<result, pulls, raw, current, stack>>]_vars

(* "( [ )": the mismatch is detected two groups deep, all three frames   *)
(* have returned it, the close delimiter is still the current token and   *)
(* no pull followed the one that delivered it                             *)
C12_Witness ==
    /\ Failed
    /\ Len(raw) = 3 /\ IsOpen(raw[1]) /\ IsOpen(raw[2]) /\ IsClose(raw[3])
    /\ result[1].val.found # None
    /\ result[1].val.open = raw[2].span
    /\ current = Some(raw[3])
    /\ pulls = 3
    /\ stack = <<>>

-----------------------------------------------------------------------------
(* C13: after any sequence of pushes the builder is a fixpoint of        *)
(* gluing: no leaf Token tagged Joint is followed by a leaf Token it      *)
(* glues with; and pushing the pairs of the built Stream, in order, into  *)
(* a fresh builder gives the same Stream again.                           *)
Gluable(p, q) ==
    IF p.tree.t = "Token" /\ p.sp = "Joint" /\ q.tree.t = "Token"
    THEN Glue(p.tree.tok, q.tree.tok) # None
    ELSE FALSE

RECURSIVE PushAll(_, _)
PushAll(v, pairs) ==
    IF pairs = <<>>
    THEN v
    ELSE PushAll(Push(v, pairs[1].tree, pairs[1].sp), Tail(pairs))

C13_GluingFixpoint ==
    /\ \A i \in 1..(Len(vec) - 1) : ~Gluable(vec[i], vec[i + 1])
    /\ Build(PushAll(<<>>, Build(vec))) = Build(vec)
    /\ vec = PushAll(<<>>, pushed)

(* Dot, Dot, Lt pushed with Joint hints: the two dots are glued, the     *)
(* DotDot is tagged Joint and is followed by a token it does not glue     *)
(* with                                                                   *)
C13_Witness ==
    /\ Len(pushed) = 3
    /\ Len(vec) = 2
    /\ vec[1] = Pair(TreeToken(Token(Simple("DotDot"), MkSpan(0, 2))), "Joint")
    /\ vec[2].tree = TreeToken(Token(Simple("Lt"), MkSpan(2, 3)))
    /\ PushAll(<<>>, vec) = vec

-----------------------------------------------------------------------------
(* C14: assembly finishes on every finite raw-token sequence.  Every     *)
(* call of next_token_tree, so every iteration of the loop of parse and   *)
(* of token_trees_until_close_delim, consumes the current raw token as    *)
(* its first step; every other step returns from a frame or leaves a      *)
(* loop; and a run stops only when parse has returned, with the Stream or *)
(* with the first structural error.                                       *)
LoopsLeft ==
    Cardinality({i \in DOMAIN stack : stack[i].phase = "loop"})

CallConsumes ==
    LoopCalls => Consumed' = Consumed + 1

OtherStepsReturn ==
    (~LoopCalls /\ status \in {"run", "unwind"}) =>
        /\ Consumed' >= Consumed
        /\ \/ Len(stack') < Len(stack)
           \/ Len(stack') = Len(stack) /\ LoopsLeft' < LoopsLeft

C14_ConsumesAndFinishes ==
    /\ [][CallConsumes /\ OtherStepsReturn]_vars
    /\ [](status = "done" \/ ENABLED Next)

-----------------------------------------------------------------------------
(* C15: whenever token_trees_until_close_delim has returned its Stream,  *)
(* the current token is absent (end of input) or a close delimiter, and   *)
(* it is still the current token: returning consumed nothing.  So the     *)
(* match after the recursive call never meets any other token and its     *)
(* `_ => unreachable!()` arm (line 55) is never taken.                    *)
AfterUntilClose ==
    status = "run" /\ Top.fn = "group" /\ Top.phase = "closing"

C15_StopsOnEofOrClose ==
    /\ [](AfterUntilClose =>
            IF current = None
            THEN eof /\ pulls = Len(raw) + 1
            ELSE /\ IsClose(current[1])
                 /\ current[1] = raw[Len(raw)]
                 /\ pulls = Len(raw))
    /\ [][(~AfterUntilClose /\ AfterUntilClose') =>
            /\ IsEofOrClose
            /\ UNCHANGED <<current, raw, pulls, hint>>
            /\ Len(stack') = Len(stack)
            /\ Top'.vec = Top.vec]_vars

(* "( ( ." then a close delimiter: the inner group has read one leaf and *)
(* returned its Stream with the close delimiter as the current token      *)
C15_Witness ==
    /\ AfterUntilClose
    /\ Len(stack) = 3
    /\ Len(Top.vec) = 1
    /\ current # None
    /\ Len(raw) = 4
    /\ current = Some(raw[4])
    /\ IsClose(raw[4])
    /\ pulls = 4

-----------------------------------------------------------------------------
(* The next_token_tree frames that are inside a delimited group, and the *)
(* open delimiters consumed so far that no consumed close delimiter has   *)
(* matched                                                                *)
GroupFrames ==
    Cardinality({i \in DOMAIN stack : stack[i].fn = "group"})

UnmatchedOpens ==
    OpenStackAt(Consumed)

NestingDepth ==
    LET depths == {Len(OpenStackAt(n)) : n \in 0..Len(raw)}
    IN  CHOOSE d \in depths : \A e \in depths : e <= d

(* C16 as stated: at every point of a run, an error return included, the *)
(* number of active group frames equals the number of unmatched open      *)
(* delimiters consumed.                                                   *)
C16_FramesEqualOpenDelims ==
    status \in {"run", "unwind", "panic"} => GroupFrames = Len(UnmatchedOpens)

(* C16 as amended: while no structural error has been detected, the      *)
(* active group frames are exactly the unmatched open delimiters          *)
(* consumed, outermost first; once an error is being returned the frames  *)
(* are fewer than the unmatched open delimiters.  So the recursion depth  *)
(* never exceeds the nesting depth of the tokens pulled and reaches it.   *)
C16_FramesAreOpenDelimsUntilError ==
    /\ status \in {"run", "panic"} =>
          /\ GroupFrames = Len(UnmatchedOpens)
          /\ GroupFrames = Len(stack) - 1
          /\ \A i \in 1..GroupFrames :
                /\ stack[i + 1].fn = "group"
                /\ stack[i + 1].open = raw[UnmatchedOpens[i]].span
                /\ stack[i + 1].delim = raw[UnmatchedOpens[i]].kind.arg
    /\ status = "unwind" => GroupFrames < Len(UnmatchedOpens)
    /\ GroupFrames <= NestingDepth

(* "( ) ( (" and a leaf at hand: three open delimiters were consumed,    *)
(* one is matched, and two group frames are active                        *)
C16_Witness ==
    /\ status = "run"
    /\ Len(raw) = 5
    /\ current # None
    /\ ~IsOpen(current[1]) /\ ~IsClose(current[1])
    /\ IsClose(raw[2])
    /\ UnmatchedOpens = <<3, 4>>
    /\ GroupFrames = 2
    /\ NestingDepth = 2

-----------------------------------------------------------------------------
(* C17: gluing never crosses a group boundary.  Every leaf of every      *)
(* builder and of the Stream returned is made of raw leaf tokens only     *)
(* (its span covers no delimiter) and lies on one side of each delimiter  *)
(* of its group; a Delimited element, once pushed, stays where it is and  *)
(* as it is; and a leaf token pushed right after a Delimited element is   *)
(* appended as the raw token it was, whatever the hints.                  *)
RECURSIVE LeavesWithin(_, _, _)
(* The leaves of the Stream are glued from raw leaf tokens of [lo, hi)   *)
(* alone, and so are, within their delimiters, those of its groups        *)
LeavesWithin(stream, lo, hi) ==
    \A k \in DOMAIN stream :
        LET e == stream[k].tree
        IN  IF e.t = "Token"
            THEN /\ lo <= e.tok.span.lo /\ e.tok.span.hi <= hi
                 /\ \A i \in (e.tok.span.lo + 1)..e.tok.span.hi :
                       ~IsOpen(raw[i]) /\ ~IsClose(raw[i])
            ELSE /\ lo <= e.open.lo /\ e.close.hi <= hi
                 /\ e.open = raw[e.open.hi].span /\ IsOpen(raw[e.open.hi])
                 /\ e.close = raw[e.close.hi].span /\ IsClose(raw[e.close.hi])
                 /\ LeavesWithin(e.inner, e.open.hi, e.close.lo)

DelimitedKept ==
    \A i \in DOMAIN stack \cap DOMAIN stack' :
        \A k \in DOMAIN stack[i].vec :
            stack[i].vec[k].tree.t = "Delimited" =>
                /\ k \in DOMAIN stack'[i].vec
                /\ stack'[i].vec[k] = stack[i].vec[k]

LeafAfterDelimited ==
    (/\ LoopCalls
     /\ Top.vec # <<>>
     /\ Top.vec[Len(Top.vec)].tree.t = "Delimited"
     /\ ~IsOpen(current[1]) /\ ~IsClose(current[1])
     /\ status' = "run") =>
        /\ Len(stack') = Len(stack)
        /\ Len(Top'.vec) = Len(Top.vec) + 1
        /\ Top'.vec[Len(Top'.vec)].tree = TreeToken(current[1])

C17_NoGlueAcrossGroups ==
    /\ [](\A i \in DOMAIN stack :
             LeavesWithin(stack[i].vec,
                          IF stack[i].fn = "group" THEN stack[i].open.hi ELSE 0,
                          Consumed))
    /\ [](Succeeded => LeavesWithin(result[1].val, 0, Len(raw)))
    /\ [][DelimitedKept /\ LeafAfterDelimited]_vars

(* Dot ( Dot ) Dot with every hint Joint: the Stream returned holds the  *)
(* three Dot tokens apart, one of them inside the group                   *)
C17_Witness ==
    /\ Succeeded
    /\ Len(raw) = 5
    /\ result[1].val =
          << Pair(TreeToken(Token(Simple("Dot"), MkSpan(0, 1))), "Joint"),
             Pair(Delimited(MkSpan(1, 2), MkSpan(3, 4), "Parenthesis",
                     << Pair(TreeToken(Token(Simple("Dot"), MkSpan(2, 3))), "Joint") >>),
                  "Joint"),
             Pair(TreeToken(Token(Simple("Dot"), MkSpan(4, 5))), "Joint") >>

-----------------------------------------------------------------------------
(* C18: the assembler holds one token of lookahead and never pulls after *)
(* the source has returned end of input.  The only token pulled and not   *)
(* consumed is the current one; every pull but the first of parse is made *)
(* while a current token is present; so the source is pulled once per     *)
(* token and once more for end of input: N + 1 times on a successful run  *)
(* over N tokens, and not again after the None of an unclosed delimiter.  *)
OneLookahead ==
    /\ pulls = Len(raw) + (IF eof THEN 1 ELSE 0)
    /\ status # "new" =>
          IF eof THEN current = None
          ELSE Len(raw) > 0 /\ current = Some(raw[Len(raw)])
    /\ status = "new" => pulls = 0 /\ current = None /\ ~eof

PullsWithTokenAtHand ==
    pulls' # pulls =>
        /\ pulls' = pulls + 1
        /\ ~eof
        /\ status = "new" \/ current # None
        /\ status = "new" => pulls = 0

C18_OneTokenLookahead ==
    /\ []OneLookahead
    /\ [](Succeeded => eof /\ pulls = Len(raw) + 1)
    /\ []((Failed /\ err # None /\ current = None) => eof /\ pulls = Len(raw) + 1)
    /\ [][PullsWithTokenAtHand]_vars

(* "( . )" was assembled: three raw tokens, four pulls, the last one     *)
(* returning end of input                                                 *)
C18_Witness ==
    /\ Succeeded
    /\ Len(raw) = 3
    /\ IsOpen(raw[1]) /\ IsClose(raw[3])
    /\ pulls = 4
    /\ eof
    /\ current = None

-----------------------------------------------------------------------------
(* C19: a push changes only the tail of the builder.  Every pair before  *)
(* the last one stays as it is and where it is; when nothing is glued the *)
(* incoming pair is appended unchanged, the pair that was last untouched, *)
(* and the length grows by one; when a glue happens only the last pair is *)
(* replaced and the length stays.                                         *)
PushFrame ==
    pushed' # pushed =>
        LET n   == Len(vec)
            inc == pushed'[Len(pushed')]
        IN  /\ pushed' = Append(pushed, inc)
            /\ \A k \in 1..(n - 1) : k \in DOMAIN vec' /\ vec'[k] = vec[k]
            /\ IF n > 0 /\ Gluable(vec[n], inc)
               THEN /\ Len(vec') = n
                    /\ vec'[n] = Pair(TreeToken(Glue(vec[n].tree.tok, inc.tree.tok)[1]),
                                      inc.sp)
               ELSE /\ Len(vec') = n + 1
                    /\ vec' = Append(vec, inc)

C19_PushChangesOnlyTail ==
    [][PushFrame /\ (pushed' = pushed => vec' = vec)]_vars

(* An identifier tagged Joint, then two dots: the identifier is still    *)
(* the first pair (appended, then left alone by the glue), and the second *)
(* pair was replaced by the glued DotDot                                  *)
C19_Witness ==
    /\ Len(pushed) = 3
    /\ Len(vec) = 2
    /\ vec[1] = pushed[1]
    /\ vec[1].sp = "Joint"
    /\ vec[1].tree.t = "Token" /\ vec[1].tree.tok.kind.tag = "Ident"
    /\ vec[2].tree = TreeToken(Token(Simple("DotDot"), MkSpan(1, 3)))
    /\ vec[2].sp = pushed[3].sp

====
